---- MODULE Spec2Model ----
(***************************************************************************)
(* Model of src/src/connection.py: the TeradataConnection manager.         *)
(*                                                                         *)
(* The manager is built from a YAML configuration source (__init__ and     *)
(* _load_config), keeps the parsed mapping in _config and a dictionary of  *)
(* already opened engines in _engines.  The SQL toolkit is the             *)
(* environment: create_engine either raises or returns a new engine, the   *)
(* liveness probe (engine.connect / SELECT 1) either raises or returns,    *)
(* and engine.dispose either raises or returns.                            *)
(*                                                                         *)
(* Python dictionaries keep insertion order, so _config and _engines are   *)
(* sequences of entries with pairwise different names.  Messages of        *)
(* exceptions are sequences of strings, built by concatenation the way the *)
(* f-strings of the source build them.                                     *)
(***************************************************************************)
EXTENDS Integers, Sequences, FiniteSets, TLC

VARIABLES
    source,     \* the config_path handed to __init__
    manager,    \* "unconstructed", "constructed" or "failed" (__init__ raised)
    config,     \* self._config: its type and, for a mapping, its entries in load order
    engines,    \* self._engines, in insertion order: [name, handle]
    pools,      \* every engine create_engine has returned; index = handle
    scopes,     \* open `with get_connection(...)` scopes, innermost last
    last,       \* what the last call on the manager did and returned
    report,     \* what the last call on the PDCRInfoReport did and bound
    threads     \* the get_engine call each concurrent caller is in

vars == <<source, manager, config, engines, pools, scopes, last, report, threads>>

----------------------------------------------------------------------------
(* Bounds of the model. *)

MaxPools == 2          \* engines create_engine may return in one behaviour
MaxScopes == 1         \* nesting depth of get_connection scopes
MaxDisposeCalls == 1   \* dispose calls on one engine

----------------------------------------------------------------------------
(* Inputs. *)

DefaultPoolSize == 5

PoolSizes == {DefaultPoolSize, 10}

\* Environment names callers ask for; "nonexistent" is in no configuration.
Names == {"test", "prod", "nonexistent"}

NoError == <<>>
NoHandle == 0

\* What yaml.safe_load makes of each configuration source.  `exists` is
\* Path.exists(), `parsed` the kind of value safe_load returns ("yaml_error"
\* when it raises yaml.YAMLError, "os_error" when open() raises), `items`
\* the entries of a mapping in file order (the elements, for a list).
\* td_env.yaml is the file the tests write with yaml.dump(sample_config),
\* which sorts the keys: "prod" comes before "test".  mixed.yaml is written
\* by hand, "test" first.
SampleTest ==
    [host |-> "test-server.com", username |-> "testuser", password |-> "testpass",
     database |-> "testdb", logmech |-> "TD2", tmode |-> "ANSI", charset |-> "UTF8"]

SampleProd ==
    [host |-> "prod-server.com", username |-> "produser", password |-> "prodpass",
     database |-> "proddb", logmech |-> "LDAP"]

IncompleteTest == [host |-> "test-server.com", username |-> "testuser"]

Sources == {"missing.yaml", "invalid.yaml", "list.yaml", "empty.yaml",
            "directory", "td_env.yaml", "incomplete.yaml", "mixed.yaml"}

\* The parameters an entry of the configuration may carry.
Fields == {"host", "username", "password", "database", "logmech", "tmode", "charset"}

\* A configuration source is a file; `shape` is used by "entry.yaml" alone,
\* a mapping whose entry "test" carries exactly the parameters of `shape`
\* and whose entry "prod" is complete.
NamedSources == {[file |-> f, shape |-> {}] : f \in Sources}

EntrySources == {[file |-> "entry.yaml", shape |-> S] : S \in SUBSET Fields}

SourceContent(source_) ==
    LET src == source_.file IN
    CASE src = "missing.yaml" -> [exists |-> FALSE, parsed |-> "none", items |-> <<>>]
      [] src = "invalid.yaml" -> [exists |-> TRUE, parsed |-> "yaml_error", items |-> <<>>]
      [] src = "list.yaml" ->
            [exists |-> TRUE, parsed |-> "list",
             items |-> << [item |-> "a"], [item |-> "b"] >>]
      [] src = "empty.yaml" -> [exists |-> TRUE, parsed |-> "none", items |-> <<>>]
      [] src = "directory" -> [exists |-> TRUE, parsed |-> "os_error", items |-> <<>>]
      [] src = "td_env.yaml" ->
            [exists |-> TRUE, parsed |-> "dict",
             items |-> << [name |-> "prod", fields |-> SampleProd],
                          [name |-> "test", fields |-> SampleTest] >>]
      [] src = "incomplete.yaml" ->
            [exists |-> TRUE, parsed |-> "dict",
             items |-> << [name |-> "test", fields |-> IncompleteTest] >>]
      [] src = "mixed.yaml" ->
            [exists |-> TRUE, parsed |-> "dict",
             items |-> << [name |-> "test", fields |-> IncompleteTest],
                          [name |-> "prod", fields |-> SampleProd] >>]
      [] src = "entry.yaml" ->
            [exists |-> TRUE, parsed |-> "dict",
             items |-> << [name |-> "test",
                           fields |-> [f \in source_.shape |-> SampleTest[f]]],
                          [name |-> "prod", fields |-> SampleProd] >>]

----------------------------------------------------------------------------
(* Helpers over the two dictionaries. *)

\* list(d.keys()): the names of a dictionary, in insertion order.
Keys(d) == [i \in 1..Len(d) |-> d[i].name]

KeySet(d) == {d[i].name : i \in 1..Len(d)}

\* self._config[env_name]
ConfigOf(cfg, n) == cfg[CHOOSE i \in 1..Len(cfg) : cfg[i].name = n].fields

\* self._engines[env_name]
HandleOf(eng, n) == eng[CHOOSE i \in 1..Len(eng) : eng[i].name = n].handle

\* [param for param in required if param not in config]
\* Variant: every required parameter is reported, present or not.
Missing_all(required, fields) == required

RECURSIVE Missing(_, _)
Missing(required, fields) ==
    IF required = <<>> THEN <<>>
    ELSE (IF Head(required) \in DOMAIN fields THEN <<>> ELSE <<Head(required)>>)
         \o Missing(Tail(required), fields)

Required == <<"host", "username", "password", "database">>

\* `size` is the pool_size argument of a get_engine call and `url` the string
\* _build_connection_string returns; the calls set them, 0 and <<>> otherwise.
Call(op, env, result, err, creates, probes, disposes, names) ==
    [op |-> op, env |-> env, result |-> result, err |-> err, creates |-> creates,
     probes |-> probes, disposes |-> disposes, names |-> names,
     size |-> 0, url |-> <<>>]

\* No call has been made on a report object; no caller is inside get_engine.
NoReport == [build |-> "", op |-> "none", args |-> <<>>, out |-> <<>>,
             params |-> <<>>, err |-> NoError]

NoThreads == <<>>

----------------------------------------------------------------------------
(* __init__ and _load_config. *)

\* Variant: the load also demands the required parameters of every entry.
is_mapping_complete(c) ==
    /\ c.parsed = "dict"
    /\ \A i \in 1..Len(c.items) : Missing(Required, c.items[i].fields) = <<>>

\* Variant: the isinstance check is dropped, any parsed value is accepted.
is_mapping_unchecked(c) == TRUE

\* isinstance(self._config, dict)
is_mapping(c) == c.parsed = "dict"

\* Line 49: self._config = {}
EmptyDict == [type |-> "dict", items |-> <<>>]

\* Line 67: self._config = yaml.safe_load(f), whatever safe_load returns.
Loaded(c) == [type |-> c.parsed, items |-> c.items]

\* The outcome of _load_config on a source: the error it raises (NoError
\* when it returns) and the value it leaves in self._config.  The value
\* safe_load returns is assigned (line 67) before it is checked (line 69),
\* so a list or None stays in self._config when the check raises.
load_config(src) ==
    LET c == SourceContent(src) IN
    IF ~c.exists
    THEN [err |-> <<"Configuration file not found: ", src.file,
                    "Please create td_env.yaml from td_env.yaml.template">>,
          config |-> EmptyDict]
    ELSE IF c.parsed = "yaml_error"
    THEN [err |-> <<"Error parsing YAML configuration: ", "yaml_error">>,
          config |-> EmptyDict]
    ELSE IF c.parsed = "os_error"
    THEN [err |-> <<"Error loading configuration: ", "os_error">>,
          config |-> EmptyDict]
    ELSE IF ~is_mapping(c)
    THEN [err |-> <<"Error loading configuration: ",
                    "Invalid configuration format in ", src.file>>,
          config |-> Loaded(c)]
    ELSE [err |-> NoError, config |-> Loaded(c)]

Construct ==
    /\ manager = "unconstructed"
    /\ LET r == load_config(source) IN
       /\ manager' = IF r.err = NoError THEN "constructed" ELSE "failed"
       /\ config' = r.config
       /\ last' = Call("__init__", source.file, NoHandle, r.err, 0, 0, 0, <<>>)
    /\ UNCHANGED <<report, threads, source, engines, pools, scopes>>

----------------------------------------------------------------------------
(* _build_connection_string. *)

\* Variant: CHARSET is appended before TMODE.
build_from_entry_swapped(n, fields) ==
    LET missing == Missing(Required, fields) IN
    IF missing # <<>>
    THEN [err |-> <<"Missing required parameters for '", n, "': ">> \o missing,
          url |-> <<>>]
    ELSE [err |-> NoError,
          url |-> <<"teradatasql://", fields.username, ":", fields.password, "@",
                    fields.host, "/", fields.database, "?LOGMECH=",
                    (IF "logmech" \in DOMAIN fields THEN fields.logmech ELSE "TD2")>>
                  \o (IF "charset" \in DOMAIN fields
                      THEN <<"&CHARSET=", fields.charset>> ELSE <<>>)
                  \o (IF "tmode" \in DOMAIN fields
                      THEN <<"&TMODE=", fields.tmode>> ELSE <<>>)]

\* Lines 100-130: the entry is there; check the required parameters and
\* format the URL.  config.get("logmech", "TD2") is the default of LOGMECH.
build_from_entry(n, fields) ==
    LET missing == Missing(Required, fields) IN
    IF missing # <<>>
    THEN [err |-> <<"Missing required parameters for '", n, "': ">> \o missing,
          url |-> <<>>]
    ELSE [err |-> NoError,
          url |-> <<"teradatasql://", fields.username, ":", fields.password, "@",
                    fields.host, "/", fields.database, "?LOGMECH=",
                    (IF "logmech" \in DOMAIN fields THEN fields.logmech ELSE "TD2")>>
                  \o (IF "tmode" \in DOMAIN fields
                      THEN <<"&TMODE=", fields.tmode>> ELSE <<>>)
                  \o (IF "charset" \in DOMAIN fields
                      THEN <<"&CHARSET=", fields.charset>> ELSE <<>>)]

\* Variant: the membership test of lines 93-98 is dropped and an unknown name
\* falls through with an empty parameter set.
build_connection_string_unchecked(cfg, n) ==
    IF n \notin KeySet(cfg)
    THEN [err |-> NoError, url |-> <<"teradatasql://">>]
    ELSE build_from_entry(n, ConfigOf(cfg, n))

build_connection_string(cfg, n) ==
    IF n \notin KeySet(cfg)
    THEN [err |-> <<"Environment '", n, "' not found in configuration. ",
                    "Available: ">> \o Keys(cfg),
          url |-> <<>>]
    ELSE build_from_entry(n, ConfigOf(cfg, n))

\* A direct call of _build_connection_string(env_name), as the tests make it.
BuildConnectionString(n) ==
    /\ manager = "constructed"
    /\ LET cs == build_connection_string(config.items, n) IN
       last' = [Call("build_connection_string", n, NoHandle, cs.err, 0, 0, 0, <<>>)
                  EXCEPT !.url = cs.url]
    /\ UNCHANGED <<report, threads, source, manager, config, engines, pools, scopes>>

----------------------------------------------------------------------------
(* get_engine. *)

\* Variant: the dictionary is never consulted, every call builds an engine.
Cached_never(eng, n) == FALSE

\* env_name in self._engines
Cached(eng, n) == n \in KeySet(eng)

\* Variant: an engine already stored under the name is kept.
StoreEngine_keep_first(eng, n, h) ==
    IF n \in KeySet(eng) THEN eng ELSE Append(eng, [name |-> n, handle |-> h])

\* self._engines[env_name] = engine
StoreEngine(eng, n, h) ==
    IF n \in KeySet(eng)
    THEN [i \in 1..Len(eng) |->
            IF eng[i].name = n THEN [name |-> n, handle |-> h] ELSE eng[i]]
    ELSE Append(eng, [name |-> n, handle |-> h])

\* Variant: the engine is stored before the probe has been run.
engines_after_probe_eager(eng, n, h, probeOk) == StoreEngine(eng, n, h)

\* Lines 157-160: the cache after the liveness probe of the new engine h.
\* A probe that raises leaves the try block before the assignment.
engines_after_probe(eng, n, h, probeOk) ==
    IF probeOk THEN StoreEngine(eng, n, h) ELSE eng

\* Variant: the wrapper drops the exception it caught.
FailedToConnect_bare(n, cause) == <<"Failed to connect to '", n, "': ">>

\* except Exception as e: raise TeradataConnectionError(f"Failed to ... {e}")
FailedToConnect(n, cause) == <<"Failed to connect to '", n, "': ">> \o cause

\* Variant: the engine is built with the default pool size, whatever is asked.
NewPool_default_size(n, url, size) ==
    [env |-> n, url |-> url, size |-> DefaultPoolSize, pre_ping |-> TRUE,
     open |-> TRUE, disposeCalls |-> 0]

\* The engine create_engine(conn_string, pool_size=pool_size, ...) returns.
NewPool(n, url, size) ==
    [env |-> n, url |-> url, size |-> size, pre_ping |-> TRUE,
     open |-> TRUE, disposeCalls |-> 0]

\* get_engine(env_name, pool_size), with the outcomes of the toolkit's
\* create_engine and of the liveness probe given: the dictionary and the
\* engines afterwards, and the call's result.
get_engine(op, n, size, createOk, probeOk) ==
    IF Cached(engines, n)
    THEN [engines |-> engines, pools |-> pools,
          last |-> Call(op, n, HandleOf(engines, n), NoError, 0, 0, 0, <<>>)]
    ELSE LET cs == build_connection_string(config.items, n) IN
         IF cs.err # NoError
         THEN [engines |-> engines, pools |-> pools,
               last |-> Call(op, n, NoHandle, FailedToConnect(n, cs.err),
                             0, 0, 0, <<>>)]
         ELSE IF ~createOk
         THEN [engines |-> engines, pools |-> pools,
               last |-> Call(op, n, NoHandle,
                             FailedToConnect(n, <<"create_engine raised">>),
                             1, 0, 0, <<>>)]
         ELSE LET h == Len(pools) + 1
                  p == NewPool(n, cs.url, size)
                  eng == engines_after_probe(engines, n, h, probeOk)
              IN [engines |-> eng, pools |-> Append(pools, p),
                  last |-> IF probeOk
                           THEN Call(op, n, HandleOf(eng, n), NoError, 1, 1, 0, <<>>)
                           ELSE Call(op, n, NoHandle,
                                     FailedToConnect(n, <<"connect raised">>),
                                     1, 1, 0, <<>>)]

\* What the toolkit may do in a get_engine call for n: create_engine raises,
\* or returns an engine whose probe raises, or returns one whose probe
\* passes.  A call that never reaches create_engine has nothing to draw.
ToolkitOutcomes(n) ==
    IF Cached(engines, n) \/ build_connection_string(config.items, n).err # NoError
    THEN {<<TRUE, TRUE>>}
    ELSE {<<FALSE, FALSE>>, <<TRUE, FALSE>>, <<TRUE, TRUE>>}

GetEngine(n, size) ==
    /\ manager = "constructed"
    /\ Cached(engines, n) \/ Len(pools) < MaxPools
    /\ \E o \in ToolkitOutcomes(n) :
         LET r == get_engine("get_engine", n, size, o[1], o[2]) IN
         /\ engines' = r.engines
         /\ pools' = r.pools
         /\ last' = [r.last EXCEPT !.size = size]
    /\ UNCHANGED <<report, threads, source, manager, config, scopes>>

----------------------------------------------------------------------------
(* get_connection: the context manager. *)

\* Variant: the finally clause disposes the engine it yielded.
exit_scope_disposing(pls, h) ==
    [i \in 1..Len(pls) |->
        IF i = h THEN [pls[i] EXCEPT !.open = FALSE, !.disposeCalls = @ + 1]
        ELSE pls[i]]

\* Lines 186-188: the finally clause on leaving the scope is `pass`.
exit_scope(pls, h) == pls

\* Entering `with conn.get_connection(env_name)`: engine = get_engine(env_name)
\* with the default pool size, then the engine is yielded to the body.
GetConnection(n) ==
    /\ manager = "constructed"
    /\ Cached(engines, n) \/ Len(pools) < MaxPools
    /\ Len(scopes) < MaxScopes
    /\ \E o \in ToolkitOutcomes(n) :
         LET r == get_engine("get_connection", n, DefaultPoolSize, o[1], o[2]) IN
         /\ engines' = r.engines
         /\ pools' = r.pools
         /\ last' = [r.last EXCEPT !.size = DefaultPoolSize]
         /\ scopes' = IF r.last.err = NoError
                       THEN Append(scopes, r.last.result) ELSE scopes
    /\ UNCHANGED <<report, threads, source, manager, config>>

\* Leaving the innermost scope, the body having returned or raised.
ExitScope(raised) ==
    /\ manager = "constructed"
    /\ scopes # <<>>
    /\ LET h == scopes[Len(scopes)] IN
       /\ pools' = exit_scope(pools, h)
       /\ last' = Call("exit_scope", "", h,
                       IF raised THEN <<"body raised">> ELSE NoError, 0, 0, 0, <<>>)
    /\ scopes' = SubSeq(scopes, 1, Len(scopes) - 1)
    /\ UNCHANGED <<report, threads, source, manager, config, engines>>

----------------------------------------------------------------------------
(* close_all. *)

\* The number of engine.dispose() calls the loop of close_all makes on engine
\* h when it runs over the first `upto` entries of the dictionary.
DisposeCallsOn(eng, upto, h) == Cardinality({i \in 1..upto : eng[i].handle = h})

\* Variant: the dictionary is not cleared after the loop.
engines_after_close_kept(eng, failAt) == eng

\* Line 195: self._engines.clear() runs when the loop has finished; a dispose
\* that raises (failAt > 0) leaves close_all before it.
engines_after_close(eng, failAt) == IF failAt = 0 THEN <<>> ELSE eng

\* close_all().  failAt = 0: no dispose raises; failAt = i: the dispose of the
\* i-th entry is the first to raise, and closedOnRaise says whether that
\* engine's connections were closed before it raised.
close_all(failAt, closedOnRaise) ==
    LET upto == IF failAt = 0 THEN Len(engines) ELSE failAt
        returned == {engines[i].handle : i \in 1..(IF failAt = 0 THEN upto ELSE upto - 1)}
        raisedOn == IF failAt = 0 THEN NoHandle ELSE engines[failAt].handle
    IN [engines |-> engines_after_close(engines, failAt),
        pools |-> [h \in 1..Len(pools) |->
                     [pools[h] EXCEPT
                        !.disposeCalls = @ + DisposeCallsOn(engines, upto, h),
                        !.open = IF h \in returned THEN FALSE
                                 ELSE IF h = raisedOn /\ closedOnRaise THEN FALSE
                                 ELSE @]],
        last |-> Call("close_all", "", NoHandle,
                      IF failAt = 0 THEN NoError ELSE <<"dispose raised">>,
                      0, 0, upto, <<>>)]

CloseAll ==
    /\ manager = "constructed"
    /\ \A i \in 1..Len(engines) : pools[engines[i].handle].disposeCalls < MaxDisposeCalls
    /\ \E failAt \in 0..Len(engines) :
       \E closedOnRaise \in (IF failAt = 0 THEN {FALSE} ELSE BOOLEAN) :
         LET r == close_all(failAt, closedOnRaise) IN
         /\ engines' = r.engines
         /\ pools' = r.pools
         /\ last' = r.last
    /\ UNCHANGED <<report, threads, source, manager, config, scopes>>

----------------------------------------------------------------------------
(* list_environments. *)

\* Variant: the names come back last-loaded first.
list_environments_reversed(cfg) ==
    [i \in 1..Len(cfg) |-> cfg[Len(cfg) + 1 - i].name]

\* Line 203: list(self._config.keys()), a new list on each call.
list_environments(cfg) == Keys(cfg)

ListEnvironments ==
    /\ manager = "constructed"
    /\ last' = Call("list_environments", "", NoHandle, NoError, 0, 0, 0,
                    list_environments(config.items))
    /\ UNCHANGED <<report, threads, source, manager, config, engines, pools, scopes>>

----------------------------------------------------------------------------
(* The manager's behaviours. *)

Init ==
    /\ source \in NamedSources
    /\ manager = "unconstructed"
    /\ config = EmptyDict
    /\ engines = <<>>
    /\ pools = <<>>
    /\ scopes = <<>>
    /\ last = Call("none", "", NoHandle, NoError, 0, 0, 0, <<>>)
    /\ report = NoReport
    /\ threads = NoThreads

Next ==
    \/ Construct
    \/ \E n \in Names, size \in PoolSizes : GetEngine(n, size)
    \/ \E n \in Names : GetConnection(n)
    \/ \E raised \in BOOLEAN : ExitScope(raised)
    \/ CloseAll
    \/ ListEnvironments

Spec == Init /\ [][Next]_vars

----------------------------------------------------------------------------
(* The manager over configurations of every shape: the entry "test" carries *)
(* any subset of the parameters.  The calls are those that read the entry.  *)

InitEntries ==
    /\ source \in EntrySources
    /\ manager = "unconstructed"
    /\ config = EmptyDict
    /\ engines = <<>>
    /\ pools = <<>>
    /\ scopes = <<>>
    /\ last = Call("none", "", NoHandle, NoError, 0, 0, 0, <<>>)
    /\ report = NoReport
    /\ threads = NoThreads

NextEntries ==
    \/ Construct
    \/ \E n \in Names : BuildConnectionString(n)
    \/ \E n \in Names, size \in PoolSizes : GetEngine(n, size)
    \/ ListEnvironments

SpecEntries == InitEntries /\ [][NextEntries]_vars

----------------------------------------------------------------------------
(* PDCRInfoReport (reports.py): the name-pattern filter and the history     *)
(* queries.  A string is the sequence of its characters; an argument is     *)
(* `given` (a string) or not (None).                                        *)

MaxFilterLen == 3      \* characters of a filter value
MaxReportPools == 1    \* engines create_engine may return to the queries

Chars == {"S", "%", "_", " "}

Whitespace == {" "}

Wildcards == {"%", "_"}

None == [given |-> FALSE, text |-> <<>>]

Str(t) == [given |-> TRUE, text |-> t]

FilterValues ==
    {None} \cup {Str(t) : t \in UNION {[1..k -> Chars] : k \in 0..MaxFilterLen}}

\* The filter values the history queries are called with.
ReportFilters ==
    {None, Str(<<"S">>), Str(<<" ", "S", "%">>)}

\* reports.py carries an unresolved merge.  "committed" is the file as it
\* stands, conflict markers included, which Python refuses to compile;
\* "upstream" and "stashed" are the file with the merge resolved to one side.
Builds == {"committed", "upstream", "stashed"}

\* `import src.reports`: the committed file raises SyntaxError at line 209
\* and no PDCRInfoReport comes to exist.
ImportReports ==
    /\ report.op = "none"
    /\ report' = [report EXCEPT
                    !.op = "import",
                    !.err = IF report.build = "committed"
                            THEN <<"SyntaxError">> ELSE NoError]
    /\ UNCHANGED <<threads, source, manager, config, engines, pools, scopes, last>>

\* The module has been imported and PDCRInfoReport can be called.
Imported == report.op # "none" /\ report.build # "committed"

\* str.strip()
RECURSIVE lstrip(_)
lstrip(t) == IF t # <<>> /\ Head(t) \in Whitespace THEN lstrip(Tail(t)) ELSE t

RECURSIVE rstrip(_)
rstrip(t) ==
    IF t # <<>> /\ t[Len(t)] \in Whitespace
    THEN rstrip(SubSeq(t, 1, Len(t) - 1)) ELSE t

strip(t) == rstrip(lstrip(t))

\* "%" in name or "_" in name
HasWildcard(t) == \E i \in 1..Len(t) : t[i] \in Wildcards

\* Variant: the value is not stripped.
database_filter_unstripped(v) ==
    LET name == IF v.given /\ v.text # <<>> THEN v.text ELSE <<"%">> IN
    IF HasWildcard(name) THEN name ELSE <<"%">> \o name

\* _database_filter(database_name), lines 65-71.
database_filter(v) ==
    LET name == IF v.given /\ v.text # <<>> THEN strip(v.text) ELSE <<"%">> IN
    IF HasWildcard(name) THEN name ELSE <<"%">> \o name

DatabaseFilter(v) ==
    /\ Imported
    /\ report' = [build |-> report.build, op |-> "_database_filter",
                  args |-> <<v>>, out |-> database_filter(v),
                  params |-> <<>>, err |-> NoError]
    /\ UNCHANGED <<threads, source, manager, config, engines, pools, scopes, last>>

\* The static method applied to every filter value, in each build.
InitFilter ==
    /\ source = [file |-> "td_env.yaml", shape |-> {}]
    /\ manager = "unconstructed"
    /\ config = EmptyDict
    /\ engines = <<>>
    /\ pools = <<>>
    /\ scopes = <<>>
    /\ last = Call("none", "", NoHandle, NoError, 0, 0, 0, <<>>)
    /\ report \in {[NoReport EXCEPT !.build = b] : b \in Builds}
    /\ threads = NoThreads

NextFilter ==
    \/ ImportReports
    \/ \E v \in FilterValues : DatabaseFilter(v)

SpecFilter == InitFilter /\ [][NextFilter]_vars

\* The start_date and end_date entries every history query binds; the dates
\* pass through as given.
DateParams ==
    << [key |-> "start_date", value |-> Str(<<"start_value">>)],
       [key |-> "end_date", value |-> Str(<<"end_value">>)] >>

Bound(key, value) == <<[key |-> key, value |-> value]>>

\* The params each query hands to pd.read_sql: the dictionary a history
\* query builds from its dates and filter arguments, nothing for get_dbcinfo.
ReportParams(build, op, args) ==
    CASE op = "get_tablespace_history" ->
            DateParams \o Bound("database_name", Str(database_filter(args[1])))
      [] op = "get_databasespace_history" ->
            DateParams \o Bound("database_name", Str(database_filter(args[1])))
      [] op = "get_spoolspace_history" /\ build = "upstream" ->
            DateParams \o Bound("user_name", Str(database_filter(args[1])))
            \o Bound("account_name", Str(database_filter(args[2])))
      [] op = "get_spoolspace_history" /\ build = "stashed" ->
            DateParams \o Bound("database_name", Str(database_filter(args[1])))
      [] op = "get_DBQLSummaryTable_History" ->
            DateParams \o Bound("user_name", args[1])
      [] op = "get_dbcinfo" -> <<>>

\* A query: `with self.conn_mgr.get_connection(env_name) as engine` around
\* pd.read_sql.  When get_connection raises nothing is bound; read_sql may
\* raise with the parameters bound.
HistoryQuery(op, n, args) ==
    /\ Imported
    /\ manager = "constructed"
    /\ Cached(engines, n) \/ Len(pools) < MaxReportPools
    /\ \E o \in ToolkitOutcomes(n), queryOk \in BOOLEAN :
         LET r == get_engine("get_connection", n, DefaultPoolSize, o[1], o[2])
             entered == r.last.err = NoError
         IN
         /\ entered \/ queryOk
         /\ engines' = r.engines
         /\ pools' = IF entered THEN exit_scope(r.pools, r.last.result) ELSE r.pools
         /\ last' = [r.last EXCEPT !.size = DefaultPoolSize]
         /\ report' = [build |-> report.build, op |-> op, args |-> args,
                       out |-> <<>>,
                       params |-> IF entered
                                  THEN ReportParams(report.build, op, args)
                                  ELSE <<>>,
                       err |-> IF ~entered THEN r.last.err
                               ELSE IF queryOk THEN NoError
                               ELSE <<"read_sql raised">>]
    /\ UNCHANGED <<threads, source, manager, config, scopes>>

GetTablespaceHistory(n, database_name) ==
    HistoryQuery("get_tablespace_history", n, <<database_name>>)

GetDatabasespaceHistory(n, database_name) ==
    HistoryQuery("get_databasespace_history", n, <<database_name>>)

\* Lines 204-301: user_name and account_name on one side of the merge,
\* database_name on the other.
GetSpoolspaceHistory(n, first, second) ==
    /\ report.build = "stashed" => second = None
    /\ HistoryQuery("get_spoolspace_history", n,
                    IF report.build = "upstream" THEN <<first, second>>
                    ELSE <<first>>)

\* Lines 303-373, on the stashed side of the merge only.
GetDBQLSummaryTableHistory(n, user_name) ==
    /\ report.build = "stashed"
    /\ HistoryQuery("get_DBQLSummaryTable_History", n, <<user_name>>)

\* Lines 375-410: get_connection around pd.read_sql(query, engine), no params.
GetDbcinfo(n) == HistoryQuery("get_dbcinfo", n, <<>>)

\* PDCRInfoReport(config_path) constructs its manager (line 43), the queries
\* run against the configured environments, and close() (lines 413-414) is
\* self.conn_mgr.close_all().
InitReports ==
    /\ source = [file |-> "td_env.yaml", shape |-> {}]
    /\ manager = "unconstructed"
    /\ config = EmptyDict
    /\ engines = <<>>
    /\ pools = <<>>
    /\ scopes = <<>>
    /\ last = Call("none", "", NoHandle, NoError, 0, 0, 0, <<>>)
    /\ report \in {[NoReport EXCEPT !.build = b] : b \in Builds}
    /\ threads = NoThreads

NextReports ==
    \/ ImportReports
    \/ Construct
    \/ \E n \in Names, v \in ReportFilters : GetTablespaceHistory(n, v)
    \/ \E n \in Names, v \in ReportFilters : GetDatabasespaceHistory(n, v)
    \/ \E n \in Names, v, w \in ReportFilters : GetSpoolspaceHistory(n, v, w)
    \/ \E n \in Names, v \in ReportFilters : GetDBQLSummaryTableHistory(n, v)
    \/ \E n \in Names : GetDbcinfo(n)
    \/ CloseAll
SpecReports == InitReports /\ [][NextReports]_vars

----------------------------------------------------------------------------
(* Two callers inside get_engine at once, and a third thread in close_all.  *)
(* Nothing in the class holds a lock, so a caller may be suspended between  *)
(* the membership test (line 145), create_engine (149-154), the probe       *)
(* (157-158), the store (160) and the return (166), and close_all between   *)
(* the next() of its loop (192), the dispose (193) and the clear (195).     *)

Threads == {"t1", "t2"}

Closer == "t3"

\* `at` and `used` are the closer's: the entries its loop has taken and the
\* size of the dictionary when the loop began; its `env` and `handle` are
\* the entry next() handed over last.
Idle == [pc |-> "idle", env |-> "", handle |-> NoHandle, result |-> NoHandle,
         err |-> NoError, at |-> 0, used |-> 0]

\* Line 145, the call being get_engine(n): the caller goes on to build an
\* engine or straight to the return.
RaceCheck(t, n) ==
    /\ manager = "constructed"
    /\ threads[t].pc = "idle"
    /\ threads' = [threads EXCEPT ![t] =
                     [Idle EXCEPT !.env = n,
                                  !.pc = IF Cached(engines, n) THEN "return"
                                         ELSE "build"]]
    /\ UNCHANGED <<report, source, manager, config, engines, pools, scopes, last>>

\* Lines 147-154: the connection string, then create_engine.
RaceBuild(t) ==
    /\ threads[t].pc = "build"
    /\ LET n == threads[t].env
           cs == build_connection_string(config.items, n)
       IN IF cs.err # NoError
          THEN /\ threads' = [threads EXCEPT ![t].pc = "done",
                                             ![t].err = FailedToConnect(n, cs.err)]
               /\ pools' = pools
          ELSE /\ Len(pools) < MaxPools
               /\ \E createOk \in BOOLEAN :
                    IF createOk
                    THEN /\ pools' = Append(pools, NewPool(n, cs.url, DefaultPoolSize))
                         /\ threads' = [threads EXCEPT ![t].pc = "probe",
                                                       ![t].handle = Len(pools) + 1]
                    ELSE /\ pools' = pools
                         /\ threads' = [threads EXCEPT
                                          ![t].pc = "done",
                                          ![t].err = FailedToConnect(n, <<"create_engine raised">>)]
    /\ UNCHANGED <<report, source, manager, config, engines, scopes, last>>

\* Lines 157-158: the liveness probe.
RaceProbe(t) ==
    /\ threads[t].pc = "probe"
    /\ \E probeOk \in BOOLEAN :
         threads' = IF probeOk
                    THEN [threads EXCEPT ![t].pc = "store"]
                    ELSE [threads EXCEPT
                            ![t].pc = "done",
                            ![t].err = FailedToConnect(threads[t].env, <<"connect raised">>)]
    /\ UNCHANGED <<report, source, manager, config, engines, pools, scopes, last>>

\* Line 160: self._engines[env_name] = engine.
RaceStore(t) ==
    /\ threads[t].pc = "store"
    /\ engines' = StoreEngine(engines, threads[t].env, threads[t].handle)
    /\ threads' = [threads EXCEPT ![t].pc = "return"]
    /\ UNCHANGED <<report, source, manager, config, pools, scopes, last>>

\* Line 166: return self._engines[env_name], read at the time of the return.
RaceReturn(t) ==
    /\ threads[t].pc = "return"
    /\ threads' = IF Cached(engines, threads[t].env)
                  THEN [threads EXCEPT ![t].pc = "done",
                                       ![t].result = HandleOf(engines, threads[t].env)]
                  ELSE [threads EXCEPT ![t].pc = "done", ![t].err = <<"KeyError">>]
    /\ UNCHANGED <<report, source, manager, config, engines, pools, scopes, last>>

\* Line 192: the loop of close_all() begins, over self._engines.items().
CloseBegin ==
    /\ manager = "constructed"
    /\ threads[Closer].pc = "idle"
    /\ threads' = [threads EXCEPT ![Closer].pc = "next",
                                  ![Closer].used = Len(engines)]
    /\ UNCHANGED <<report, source, manager, config, engines, pools, scopes, last>>

\* Line 192, next() of the loop's iterator.  It raises RuntimeError when the
\* dictionary has changed size since the loop began; otherwise it ends the
\* loop or hands over the next entry, name and engine, as they are now.
CloseNext ==
    /\ threads[Closer].pc = "next"
    /\ LET c == threads[Closer] IN
       threads' =
         IF Len(engines) # c.used
         THEN [threads EXCEPT
                 ![Closer].pc = "done",
                 ![Closer].err = <<"RuntimeError: ",
                                   "dictionary changed size during iteration">>]
         ELSE IF c.at = c.used
         THEN [threads EXCEPT ![Closer].pc = "clear"]
         ELSE [threads EXCEPT ![Closer].pc = "dispose",
                              ![Closer].at = c.at + 1,
                              ![Closer].env = engines[c.at + 1].name,
                              ![Closer].handle = engines[c.at + 1].handle]
    /\ UNCHANGED <<report, source, manager, config, engines, pools, scopes, last>>

\* Lines 193-194: engine.dispose() on the engine next() handed over,
\* whatever the dictionary holds by now.  A dispose that raises leaves
\* close_all.
CloseDispose ==
    /\ threads[Closer].pc = "dispose"
    /\ LET h == threads[Closer].handle IN
       \E disposeOk \in BOOLEAN, closedOnRaise \in BOOLEAN :
         /\ disposeOk => closedOnRaise
         /\ pools' = [pools EXCEPT
                        ![h].disposeCalls = @ + 1,
                        ![h].open = IF closedOnRaise THEN FALSE ELSE @]
         /\ threads' = IF disposeOk
                       THEN [threads EXCEPT ![Closer].pc = "next"]
                       ELSE [threads EXCEPT ![Closer].pc = "done",
                                            ![Closer].err = <<"dispose raised">>]
    /\ UNCHANGED <<report, source, manager, config, engines, scopes, last>>

\* Line 195: self._engines.clear().
CloseClear ==
    /\ threads[Closer].pc = "clear"
    /\ engines' = engines_after_close(engines, 0)
    /\ threads' = [threads EXCEPT ![Closer].pc = "done"]
    /\ UNCHANGED <<report, source, manager, config, pools, scopes, last>>

InitRace ==
    /\ source = [file |-> "td_env.yaml", shape |-> {}]
    /\ manager = "unconstructed"
    /\ config = EmptyDict
    /\ engines = <<>>
    /\ pools = <<>>
    /\ scopes = <<>>
    /\ last = Call("none", "", NoHandle, NoError, 0, 0, 0, <<>>)
    /\ report = NoReport
    /\ threads = [t \in Threads \cup {Closer} |-> Idle]

NextRace ==
    \/ Construct
    \/ \E t \in Threads, n \in Names : RaceCheck(t, n)
    \/ \E t \in Threads : RaceBuild(t)
    \/ \E t \in Threads : RaceProbe(t)
    \/ \E t \in Threads : RaceStore(t)
    \/ \E t \in Threads : RaceReturn(t)
    \/ CloseBegin
    \/ CloseNext
    \/ CloseDispose
    \/ CloseClear

SpecRace == InitRace /\ [][NextRace]_vars

----------------------------------------------------------------------------
(* Vocabulary of the properties. *)

\* The two error kinds of the design, read off the message the single
\* exception class TeradataConnectionError carries: the wrapper of get_engine
\* ("Failed to connect to ...") is the connection kind, the messages of
\* _load_config and _build_connection_string are the configuration kind.
\* An exception of the toolkit or of a caller's body is of neither.
ConfigMessages ==
    {"Configuration file not found: ", "Error parsing YAML configuration: ",
     "Error loading configuration: ", "Environment '",
     "Missing required parameters for '"}

ErrorKind(msg) ==
    IF msg = NoError THEN "none"
    ELSE IF Head(msg) = "Failed to connect to '" THEN "ConnectionError"
    ELSE IF Head(msg) \in ConfigMessages THEN "ConfigError"
    ELSE "other"

\* A message ends with the list `names`.
ListsNames(msg, names) ==
    /\ Len(msg) >= Len(names)
    /\ SubSeq(msg, Len(msg) - Len(names) + 1, Len(msg)) = names

Acquires == {"get_engine", "get_connection"}

\* Entries of the dictionary `eng` that hold engine h.
EntriesOf(eng, h) == {i \in 1..Len(eng) : eng[i].handle = h}

\* Engines built for name n that have not been disposed.
OpenFor(n) == {h \in 1..Len(pools) : pools[h].env = n /\ pools[h].open}

----------------------------------------------------------------------------
(* C1 *)

\* C1: a get_engine call for a name that is already in the cache succeeds,
\* returns the cached engine, calls create_engine and the liveness probe zero
\* times and builds nothing; and as long as a name stays in the cache it is
\* bound to the same engine and no further engine is built for it, so
\* successive successful calls return the identical handle of the one engine
\* built for it.
C1_CachedAcquireIsIdempotent ==
    [][\A n \in Names :
         /\ (n \in KeySet(engines) /\ last'.op = "get_engine" /\ last'.env = n)
              => /\ last'.err = NoError
                 /\ last'.result = HandleOf(engines, n)
                 /\ last'.creates = 0
                 /\ last'.probes = 0
                 /\ pools' = pools
                 /\ engines' = engines
         /\ (n \in KeySet(engines) /\ n \in KeySet(engines'))
              => /\ HandleOf(engines', n) = HandleOf(engines, n)
                 /\ {h \in 1..Len(pools') : pools'[h].env = n}
                      = {h \in 1..Len(pools) : pools[h].env = n}]_vars

\* A second get_engine call was served from the cache.
C1_Witness ==
    /\ last.op = "get_engine"
    /\ last.err = NoError
    /\ last.creates = 0
    /\ last.env \in KeySet(engines)
    /\ last.result = HandleOf(engines, last.env)

----------------------------------------------------------------------------
(* C2 *)

\* C2: a get_engine call (direct or through get_connection) that raises leaves
\* the cache as it was, whatever the reason; and a name enters the cache only
\* in a call for that name that built one engine, probed it once and
\* returned it without error.
C2_NoPartialStateOnFailedAcquire ==
    [][/\ (last'.op \in Acquires /\ last'.err # NoError) => engines' = engines
       /\ \A n \in Names :
            (n \in KeySet(engines') /\ n \notin KeySet(engines))
              => /\ last'.op \in Acquires
                 /\ last'.env = n
                 /\ last'.err = NoError
                 /\ last'.creates = 1
                 /\ last'.probes = 1
                 /\ last'.result = HandleOf(engines', n)]_vars

\* The liveness probe of a new engine failed while another name was cached.
C2_Witness ==
    /\ last.op = "get_engine"
    /\ last.probes = 1
    /\ last.err # NoError
    /\ engines # <<>>

----------------------------------------------------------------------------
(* C3 *)

\* C3: get_engine for a name that is not in the configuration fails with the
\* configuration kind of error, not the connection kind, with a message that
\* lists all configured names, and without calling create_engine.
C3_UnknownEnvironmentIsConfigError ==
    (last.op = "get_engine" /\ last.env \notin KeySet(config.items))
      => /\ ErrorKind(last.err) = "ConfigError"
         /\ ListsNames(last.err, Keys(config.items))
         /\ last.creates = 0

----------------------------------------------------------------------------
(* C4 *)

\* C4: a close_all in which no dispose raises leaves the cache empty and has
\* called dispose on every engine once per cache entry that held it, and on
\* no other engine; on an empty cache (so also when called again at once) it
\* disposes nothing and the cache stays empty.
C4_CloseAllDisposesEachOnce ==
    [][(last'.op = "close_all" /\ last'.err = NoError)
         => /\ engines' = <<>>
            /\ Len(pools') = Len(pools)
            /\ \A h \in 1..Len(pools) :
                 /\ pools'[h].disposeCalls =
                      pools[h].disposeCalls + Cardinality(EntriesOf(engines, h))
                 /\ EntriesOf(engines, h) # {} => ~pools'[h].open
            /\ last'.disposes = Len(engines)
            /\ engines = <<>> => pools' = pools]_vars

\* close_all has disposed the engines of two cache entries.
C4_Witness ==
    /\ last.op = "close_all"
    /\ last.err = NoError
    /\ last.disposes = 2
    /\ engines = <<>>

----------------------------------------------------------------------------
(* C5 *)

\* C5: with several engines cached, a close_all in which the dispose of one
\* of them raises has still called dispose on every cached engine, and the
\* cache is empty when it is over.
C5_DisposalFailureDoesNotAbort ==
    [][(last'.op = "close_all" /\ last'.err # NoError /\ Len(engines) >= 2)
         => /\ engines' = <<>>
            /\ \A i \in 1..Len(engines) :
                 pools'[engines[i].handle].disposeCalls
                   > pools[engines[i].handle].disposeCalls]_vars

----------------------------------------------------------------------------
(* C6 *)

\* The names of the configuration; a self._config that is no mapping has none.
ConfiguredNames == IF config.type = "dict" THEN KeySet(config.items) ELSE {}

\* C6: every key of the cache is a name of the configuration, and every
\* engine create_engine has built was built for a name of the configuration.
C6_HandlesOnlyForConfiguredNames ==
    /\ KeySet(engines) \subseteq ConfiguredNames
    /\ \A h \in 1..Len(pools) : pools[h].env \in ConfiguredNames

\* An unknown name was asked for on a manager that has built an engine.
C6_Witness ==
    /\ last.op = "get_engine"
    /\ last.env \notin KeySet(config.items)
    /\ engines # <<>>

----------------------------------------------------------------------------
(* C7 *)

\* C7: at any time at most one engine built for a given name exists that has
\* not been disposed.
C7_AtMostOneLivePoolPerName ==
    \A n \in Names : Cardinality(OpenFor(n)) <= 1

----------------------------------------------------------------------------
(* C8 *)

\* C8: every engine the manager has built is in the cache or has been
\* disposed; no engine is open and unreachable from the cache.
C8_CacheOwnsEveryPool ==
    \A h \in 1..Len(pools) : pools[h].open => EntriesOf(engines, h) # {}

----------------------------------------------------------------------------
(* C9 *)

\* C9: get_connection yields the engine the cache holds for the name, which
\* is what get_engine returns for it; leaving the scope, normally or by an
\* exception, changes neither the cache nor any engine; and get_engine,
\* get_connection and list_environments dispose no engine and remove or
\* rebind no cache entry.  Only close_all disposes.
C9_OnlyCloseAllDisposes ==
    [][/\ (last'.op = "get_connection" /\ last'.err = NoError)
            => /\ last'.env \in KeySet(engines')
               /\ last'.result = HandleOf(engines', last'.env)
               /\ scopes' = Append(scopes, last'.result)
       /\ last'.op = "exit_scope" => (engines' = engines /\ pools' = pools)
       /\ last'.op # "close_all"
            => /\ \A h \in 1..Len(pools) : pools'[h] = pools[h]
               /\ \A i \in 1..Len(engines) :
                    Len(engines') >= i /\ engines'[i] = engines[i]]_vars

\* A scope whose body raised has been left while its engine is cached.
C9_Witness ==
    /\ last.op = "exit_scope"
    /\ last.err # NoError
    /\ EntriesOf(engines, last.result) # {}
    /\ pools[last.result].open

----------------------------------------------------------------------------
(* C10 *)

\* C10: __init__ on a source that does not exist raises the error
\* "Configuration file not found"; on a source that is not parseable it
\* raises "Error parsing YAML configuration" followed by the parser's
\* message; on a source that parses to something other than a mapping it
\* raises too.  After any of them there is no manager: no cache, and no call
\* ever follows.
C10_ConstructionFailsOnBadSource ==
    manager # "unconstructed" =>
      LET c == SourceContent(source) IN
      /\ ~c.exists
           => /\ manager = "failed"
              /\ Head(last.err) = "Configuration file not found: "
      /\ (c.exists /\ c.parsed = "yaml_error")
           => /\ manager = "failed"
              /\ last.err = <<"Error parsing YAML configuration: ", "yaml_error">>
      /\ (c.exists /\ c.parsed \in {"list", "none"}) => manager = "failed"
      /\ manager = "failed"
           => /\ last.op = "__init__"
              /\ ErrorKind(last.err) = "ConfigError"
              /\ engines = <<>> /\ pools = <<>> /\ scopes = <<>>

\* Construction from a source that is not a mapping has failed.
C10_Witness ==
    /\ manager = "failed"
    /\ SourceContent(source).parsed = "list"

----------------------------------------------------------------------------
(* C11 *)

\* The entries of the source's mapping that lack a required parameter.
IncompleteEntries ==
    {i \in 1..Len(SourceContent(source).items) :
        \E f \in {"host", "username", "password", "database"} :
            f \notin DOMAIN SourceContent(source).items[i].fields}

IncompleteNames == {SourceContent(source).items[i].name : i \in IncompleteEntries}

\* A message holds the text "Missing required parameters for '".
MentionsMissing(msg) ==
    \E k \in 1..Len(msg) : msg[k] = "Missing required parameters for '"

\* C11 as stated: a configuration with an entry that lacks a required
\* parameter fails at construction, before any get_engine call.
C11_LoadFailsOnIncompleteEntry ==
    (manager # "unconstructed" /\ IncompleteEntries # {}) => manager = "failed"

\* C11 as amended: construction from a mapping succeeds whether or not its
\* entries are complete, and keeps every entry; an entry that lacks a
\* required parameter is reported only by a later call that builds its
\* connection string, which fails with the missing-parameters message.
C11_IncompleteEntryFailsAtBuild ==
    /\ (manager # "unconstructed" /\ SourceContent(source).parsed = "dict")
         => /\ manager = "constructed"
            /\ config = Loaded(SourceContent(source))
    /\ (last.op \in {"build_connection_string", "get_engine"}
           /\ last.env \in IncompleteNames)
         => /\ last.err # NoError
            /\ MentionsMissing(last.err)

\* get_engine has failed on an incomplete entry of a constructed manager.
C11_Witness ==
    /\ manager = "constructed"
    /\ last.op = "get_engine"
    /\ last.env \in IncompleteNames
    /\ last.err # NoError

----------------------------------------------------------------------------
(* C12 *)

\* The required parameters an entry lacks, in the order host, username,
\* password, database.
LacksOf(fields) ==
    SelectSeq(<<"host", "username", "password", "database">>,
              LAMBDA f : f \notin DOMAIN fields)

\* C12: a manager is constructed from a configuration with an incomplete
\* entry, and list_environments lists that entry; building its connection
\* string, directly or in get_engine, fails with the missing-parameters
\* message, which ends with exactly the parameters the entry lacks, calls
\* create_engine zero times and leaves the cache and the engines as they
\* were; a complete entry of the same configuration never fails for a
\* configuration reason.
C12_MissingParametersAtBuildOnly ==
    /\ [](IncompleteEntries # {} /\ manager # "unconstructed"
            => /\ manager = "constructed"
               /\ last.op = "list_environments"
                    => IncompleteNames \subseteq {last.names[k] : k \in 1..Len(last.names)}
               /\ (last.op \in {"build_connection_string", "get_engine"}
                      /\ last.env \in KeySet(config.items) \ IncompleteNames)
                    => (last.err # NoError => last.creates = 1))
    /\ [][(last'.op \in {"build_connection_string", "get_engine"}
             /\ last'.env \in IncompleteNames)
            => /\ MentionsMissing(last'.err)
               /\ ListsNames(last'.err, LacksOf(ConfigOf(config.items, last'.env)))
               /\ last'.creates = 0
               /\ last'.result = NoHandle
               /\ engines' = engines
               /\ pools' = pools]_vars

\* With the complete entry cached, get_engine has failed on the incomplete
\* entry, which lacks some but not all of the required parameters.
C12_Witness ==
    /\ last.op = "get_engine"
    /\ last.env \in IncompleteNames
    /\ Len(LacksOf(ConfigOf(config.items, last.env))) \in {1, 2, 3}
    /\ engines # <<>>

----------------------------------------------------------------------------
(* C13 *)

\* The connection target string of the interface description for an entry.
TargetString(fields) ==
    <<"teradatasql://", fields.username, ":", fields.password, "@", fields.host,
      "/", fields.database, "?LOGMECH=">>
    \o <<IF "logmech" \in DOMAIN fields THEN fields.logmech ELSE "TD2">>
    \o (IF "tmode" \in DOMAIN fields THEN <<"&TMODE=", fields.tmode>> ELSE <<>>)
    \o (IF "charset" \in DOMAIN fields THEN <<"&CHARSET=", fields.charset>> ELSE <<>>)

\* C13: for an entry with the four required parameters the string
\* _build_connection_string returns, and the one every engine of that entry
\* was created with, is teradatasql://<username>:<password>@<host>/<database>
\* ?LOGMECH=<logmech, or TD2 when absent>, then &TMODE=<tmode> iff tmode is
\* present, then &CHARSET=<charset> iff charset is present.
C13_ConnectionStringFormat ==
    /\ (last.op = "build_connection_string"
           /\ last.env \in KeySet(config.items) \ IncompleteNames)
         => /\ last.err = NoError
            /\ last.url = TargetString(ConfigOf(config.items, last.env))
            /\ ("tmode" \notin DOMAIN ConfigOf(config.items, last.env)
                  => \A k \in 1..Len(last.url) : last.url[k] # "&TMODE=")
            /\ ("charset" \notin DOMAIN ConfigOf(config.items, last.env)
                  => \A k \in 1..Len(last.url) : last.url[k] # "&CHARSET=")
    /\ \A h \in 1..Len(pools) :
         pools[h].url = TargetString(ConfigOf(config.items, pools[h].env))

\* The string of an entry with tmode and charset and no logmech was built.
C13_Witness ==
    /\ last.op = "build_connection_string"
    /\ last.err = NoError
    /\ DOMAIN ConfigOf(config.items, last.env)
         = {"host", "username", "password", "database", "tmode", "charset"}
    /\ Len(last.url) = 14

----------------------------------------------------------------------------
\* C14: _database_filter binds "%" followed by the stripped value when the
\* value holds neither "%" nor "_", the stripped value itself when it holds
\* one, and "%" when the value is empty or missing; the result always holds a
\* wildcard, and filtering the result again gives the same result.
C14_FilterNormalization ==
    report.op = "_database_filter" =>
        LET v == report.args[1]
            out == report.out
        IN /\ out = IF ~v.given \/ v.text = <<>> THEN <<"%">>
                    ELSE IF HasWildcard(v.text) THEN strip(v.text)
                    ELSE <<"%">> \o strip(v.text)
           /\ HasWildcard(out)
           /\ database_filter(Str(out)) = out

\* A value with surrounding whitespace and no wildcard has been filtered.
C14_Witness ==
    /\ report.op = "_database_filter"
    /\ report.args = <<Str(<<" ", "S", " ">>)>>
    /\ report.out = <<"%", "S">>

----------------------------------------------------------------------------
\* C15: once the manager is constructed no call changes the configuration,
\* which stays what was loaded from the source, entry by entry; and every
\* list_environments call returns all configured names in load order.
C15_RegistryIsReadOnly ==
    /\ [](manager = "constructed" => config = Loaded(SourceContent(source)))
    /\ [][manager = "constructed" => config' = config]_vars
    /\ [](last.op = "list_environments" =>
            /\ Len(last.names) = Len(SourceContent(source).items)
            /\ \A i \in 1..Len(last.names) :
                 last.names[i] = SourceContent(source).items[i].name)

\* The names are listed in file order, "test" before "prod", after an
\* acquire has built a pool.
C15_Witness ==
    /\ last.op = "list_environments"
    /\ last.names = <<"test", "prod">>
    /\ engines # <<>>

----------------------------------------------------------------------------
\* C16: get_engine does not serialize its check-then-insert.  Every store of
\* line 160 overwrites: the cache then maps the name to the engine of the
\* caller that stored last, and an engine stored before under that name is in
\* no entry of the cache; and close_all disposes only what its loop took
\* from the cache: each next() hands over an engine that is in an entry at
\* that moment, and only the engine handed over is disposed, so a close_all
\* that begins once an engine is in no entry never disposes it.  The witness
\* is the interleaving of the claim.
C16_SecondWriteWins ==
    /\ [][\A t \in Threads :
            threads[t].pc = "store" /\ threads'[t].pc = "return" =>
              LET n == threads[t].env IN
              /\ n \in KeySet(engines')
              /\ \A i \in 1..Len(engines') :
                   engines'[i].name = n => engines'[i].handle = threads[t].handle
              /\ \A i \in 1..Len(engines) :
                   engines[i].name = n /\ engines[i].handle # threads[t].handle =>
                     EntriesOf(engines', engines[i].handle) = {}]_vars
    /\ [][threads[Closer].pc = "next" /\ threads'[Closer].pc = "dispose" =>
            EntriesOf(engines, threads'[Closer].handle) # {}]_vars
    /\ [][\A h \in 1..Len(pools) :
            pools'[h] # pools[h] =>
              threads[Closer].pc = "dispose" /\ threads[Closer].handle = h]_vars

\* Both callers asked for "prod", both built an engine and each got its own
\* back; a close_all has since run to its end, disposing the engine stored
\* second, and the engine stored first is still open, never disposed.
C16_Witness ==
    /\ \A t \in Threads :
         /\ threads[t].pc = "done"
         /\ threads[t].env = "prod"
         /\ threads[t].handle # NoHandle
         /\ threads[t].result # NoHandle
    /\ threads["t1"].handle # threads["t2"].handle
    /\ threads[Closer].pc = "done" /\ threads[Closer].err = NoError
    /\ engines = <<>>
    /\ \E lost, won \in 1..Len(pools) :
         /\ pools[lost].env = "prod" /\ pools[lost].open
         /\ pools[lost].disposeCalls = 0
         /\ pools[won].env = "prod" /\ ~pools[won].open
         /\ {threads[t].result : t \in Threads} = {lost, won}

----------------------------------------------------------------------------
\* C17: a get_engine call (direct or through get_connection) in which
\* create_engine or the probe raises calls create_engine once and probes at
\* most once, raises the connection kind of error whose message holds the
\* environment name and the cause, and leaves the cache as it was, so the name
\* is still uncached and a later call builds an engine again.
C17_FailedAcquireIsNotCached ==
    /\ [](last.op \in Acquires /\ last.err # NoError /\ last.creates > 0 =>
            /\ last.creates = 1
            /\ last.probes <= 1
            /\ ErrorKind(last.err) = "ConnectionError"
            /\ \E i \in 1..Len(last.err) : last.err[i] = last.env
            /\ last.err[Len(last.err)] =
                 (IF last.probes = 0 THEN "create_engine raised" ELSE "connect raised")
            /\ last.env \notin KeySet(engines))
    /\ [][last'.op \in Acquires /\ last'.err # NoError /\ last'.creates > 0 =>
            engines' = engines]_vars

\* An acquire for a name has succeeded with a new engine after an earlier
\* acquire for the same name had built an engine whose probe failed.
C17_Witness ==
    /\ last.op \in Acquires
    /\ last.err = NoError
    /\ last.creates = 1
    /\ \E h \in 1..Len(pools) :
         /\ pools[h].env = last.env
         /\ h < last.result
         /\ EntriesOf(engines, h) = {}
         /\ pools[h].disposeCalls = 0

----------------------------------------------------------------------------
\* C18: every history query that takes a name-pattern filter binds the filter
\* in normalized form: each bound pattern is what _database_filter makes of
\* the argument it comes from, so it holds a wildcard, and no argument is
\* bound as the caller gave it.
C18_EveryReportBindsNormalizedPattern ==
    \A j \in 1..Len(report.args) :
        Len(report.params) >= Len(DateParams) + j =>
            LET bound == report.params[Len(DateParams) + j].value IN
            /\ bound.given
            /\ bound.text = database_filter(report.args[j])
            /\ HasWildcard(bound.text)

----------------------------------------------------------------------------
\* C19: the cache never keeps a disposed engine, not even after a close_all
\* that one dispose aborted: the engines whose dispose had returned before
\* the one that raised are in no entry of the cache afterwards, so no later
\* get_engine or get_connection hands one of them out.
C19_CacheHoldsNoDisposedHandle ==
    [][last'.op = "close_all" /\ last'.err # NoError =>
         \A i \in 1..(last'.disposes - 1) :
             EntriesOf(engines', engines[i].handle) = {}]_vars

----------------------------------------------------------------------------
\* C20: pool_size counts only in the call that builds the engine.  A
\* get_engine for a cached name builds nothing and returns the cached engine,
\* whatever pool size it asks for; no call changes the pool size of an engine
\* once built; an engine built by get_engine has the pool size asked for and
\* one built by get_connection has the default, 5.
C20_PoolSizeOnlyOnConstruction ==
    [][/\ \A h \in 1..Len(pools) : pools'[h].size = pools[h].size
       /\ (last'.op = "get_engine" /\ last'.env \in KeySet(engines)) =>
             /\ pools' = pools
             /\ last'.creates = 0
             /\ last'.result = HandleOf(engines, last'.env)
       /\ Len(pools') > Len(pools) =>
             /\ last'.op \in Acquires
             /\ pools'[Len(pools')].size = last'.size
             /\ last'.op = "get_connection" =>
                  pools'[Len(pools')].size = DefaultPoolSize]_vars

\* get_engine with pool size 10 has returned the cached engine, built with
\* pool size 5.
C20_Witness ==
    /\ last.op = "get_engine"
    /\ last.err = NoError
    /\ last.creates = 0
    /\ last.size = 10
    /\ pools[last.result].size = DefaultPoolSize

====
